---------------------------- MODULE Spec2Model ----------------------------
(***************************************************************************)
(* A model of the mi-prometheus core: the MAES encoder/solver control flow *)
(* (models/encoder_solver/maes_model.py), the DataDict container and the   *)
(* Problem base class (problems/problem.py).                               *)
(*                                                                         *)
(* Three specifications share the variables:                               *)
(*   Spec          MAES.forward (one loop iteration per step) and save     *)
(*   SpecDataDict  the DataDict operations                                 *)
(*   SpecProblem   the Problem base-class getters                          *)
(***************************************************************************)
EXTENDS Integers, Sequences, FiniteSets, TLC

VARIABLES
    \* ---- MAES object (set by __init__) ----
    params,                \* the optional entries of the params dictionary
    encoding_bit,          \* self.encoding_bit
    solving_bit,           \* self.solving_bit
    pass_cell_state,       \* self.pass_cell_state
    num_memory_addresses,  \* self.num_memory_addresses
    save_encoder,          \* self.save_encoder
    \* ---- one call of MAES.forward ----
    pc,                    \* "idle" | "loop" | "returned" | "exited" | "raised"
    inputs,                \* row 0 of inputs_BxSxI: a sequence of steps
    batch_size,            \* inputs_BxSxI.size(0)
    i,                     \* index of the next chunk of the for loop
    mode,                  \* "Encode" | "Solve"
    encoder_state,
    solver_state,          \* None until the first switch
    logits,                \* the logits container
    calls,                 \* the cell invocations of this call, in order
    result,                \* what forward returned (None before)
    exit_code,             \* the process's exit code (None while it runs)
    log,                   \* records of the logger during the last operation
    \* ---- MAES.save ----
    files,                 \* files written by the last save, in order
    save_args,             \* the arguments of the last save
    save_ret,              \* what the last save returned
    \* ---- DataDict ----
    d,                     \* self.__dict__ of the DataDict
    dd_last,               \* the last DataDict operation and its outcome
    \* ---- Problem ----
    length,                \* self.length
    params_batch_size,     \* self.params['batch_size']
    data_definitions,      \* self.data_definitions
    prob_last              \* the last Problem call and its outcome

maes_params == <<params, encoding_bit, solving_bit, pass_cell_state,
                 num_memory_addresses, save_encoder>>
maes_vars == <<params, encoding_bit, solving_bit, pass_cell_state, num_memory_addresses,
               save_encoder, pc, inputs, batch_size, i, mode, encoder_state,
               solver_state, logits, calls, result, exit_code, log, files,
               save_args, save_ret>>
dd_vars   == <<d, dd_last>>
prob_vars == <<length, params_batch_size, data_definitions, prob_last>>
vars      == <<maes_vars, dd_vars, prob_vars>>

\* ------------------------------------------------------------------ bounds
MaxSeq    == 3     \* longest input sequence
MaxBatch  == 2     \* largest batch
MaxLength == 6     \* largest dataset length
MaxParamBatch == 4 \* largest params['batch_size']

\* -------------------------------------------------------------- python bits
\* Python's None, as a record so that it compares with cell states and results.
None == [none |-> TRUE]

\* A call that has returned nothing (not made, or it raised), and one that
\* returned v.
NoReturn == <<>>
Return(v) == <<v>>

\* A parameter absent from params, and one given with value v.
Absent == <<>>
Given(v) == <<v>>

\* params.get(key, default)
ParamGet(param, default) == IF param = Absent THEN default ELSE param[1]

\* Truth value of a tensor element: non-zero.
Truthy(v) == v # 0

\* The values a control channel takes.
BitVals == {0, 1}

\* One time step of row 0: the values of its input channels (two control
\* channels, as in the forward test, with the encoding bit at 0 and the
\* solving bit at 1).
Steps == [0 .. 1 -> BitVals]

\* All input sequences of at most MaxSeq steps.
InputSeqs == UNION {[1 .. n -> Steps] : n \in 0 .. MaxSeq}


\* ------------------------------------------------------ encoder/solver cells
\* The chunk of step t handed to the cells: row 0's channels and the number
\* of rows of the batch.
Chunk(in, rows, t) == [row0 |-> in[t], rows |-> rows]

\* torch.zeros(batch_size, num_memory_addresses, content_bits): one slot per
\* address, all zero.
ZeroMemory(addresses) == [a \in 1 .. addresses |-> 0]

\* MAECell.init_state(init_memory): a fresh controller, attention on the first
\* address, the given memory.
EncoderInitState(init_memory) ==
    [memory_state |-> init_memory, attention |-> 1, ctrl_state |-> 0]

\* What a step leaves in memory: a code of its control channels.
Token(x) == 1 + x.row0[0] + 2 * x.row0[1]

NextAttention(s) == (s.attention % Len(s.memory_state)) + 1

\* MAECell.forward(x, state): writes at the attended address, moves the
\* attention, updates the controller; one logit row per batch row.
EncoderCell(x, s) ==
    [logit |-> [cell |-> "encoder", x |-> x.row0,
                shape |-> [batch |-> x.rows, feat |-> "output_size"]],
     state |-> [memory_state |-> [s.memory_state EXCEPT ![s.attention] = Token(x)],
                attention |-> NextAttention(s),
                ctrl_state |-> (s.ctrl_state + 1) % 4]]

\* MASCell.init_state_with_encoder_state(encoder_state): the whole cell state.
SolverInitStateWithEncoderState(es) ==
    [memory_state |-> es.memory_state, attention |-> es.attention,
     ctrl_state |-> es.ctrl_state]

\* MASCell.init_state(memory, attention): a fresh controller over the given
\* memory and attention.
SolverInitState(memory, attention) ==
    [memory_state |-> memory, attention |-> attention, ctrl_state |-> 0]

\* MASCell.forward(x, state): reads the attended address, moves the attention,
\* updates the controller; the memory is left as it is.
SolverCell(x, s) ==
    [logit |-> [cell |-> "solver", x |-> x.row0,
                shape |-> [batch |-> x.rows, feat |-> "output_size"]],
     state |-> [memory_state |-> s.memory_state,
                attention |-> NextAttention(s),
                ctrl_state |-> (s.ctrl_state + 2) % 4]]

\* ------------------------------------------------------------ MAES.forward
\* "Data-driven memory size": -1 means the input sequence length.
NumMemoryAddresses(self_addresses, in) ==
    IF self_addresses = -1 THEN Len(in) ELSE self_addresses

\* if x[0, self.solving_bit] and not x[0, self.encoding_bit]
IsSwitch_AnySolvingBit(x) == Truthy(x.row0[solving_bit])
IsSwitch(x) == Truthy(x.row0[solving_bit]) /\ ~Truthy(x.row0[encoding_bit])

\* elif x[0, self.encoding_bit] and x[0, self.solving_bit]
IsIllegal_EncodingBitTwice(x) ==
    Truthy(x.row0[encoding_bit]) /\ Truthy(x.row0[encoding_bit])
IsIllegal(x) == Truthy(x.row0[encoding_bit]) /\ Truthy(x.row0[solving_bit])

\* Lines 139-144: which initialiser of the solver the switch calls, and on
\* what of the encoder state.
HandOffCall_Swapped(es) ==
    IF pass_cell_state
    THEN [fn |-> "init_state", memory |-> es.memory_state,
          attention |-> es.attention]
    ELSE [fn |-> "init_state_with_encoder_state", encoder_state |-> es]
HandOffCall(es) ==
    IF pass_cell_state
    THEN [fn |-> "init_state_with_encoder_state", encoder_state |-> es]
    ELSE [fn |-> "init_state", memory |-> es.memory_state,
          attention |-> es.attention]

\* The solver state that call yields.
SolverInit(call) ==
    IF call.fn = "init_state_with_encoder_state"
    THEN SolverInitStateWithEncoderState(call.encoder_state)
    ELSE SolverInitState(call.memory, call.attention)

\* A step that initialises no solver state.
NoInit == [fn |-> "none"]

\* logits += [logit]
Collect_Overwrite(ls, logit) == <<logit>>
Collect(ls, logit) == Append(ls, logit)

\* torch.stack(logits, 1): [batch, len(logits), output_size], in list order.
Stack(ls) ==
    [shape |-> [batch |-> ls[1].shape.batch, seq |-> Len(ls),
                feat |-> ls[1].shape.feat],
     items |-> ls]

\* Run encoder or solver - depending on the mode: the cell's output, the two
\* states afterwards and the record of the invocation.
RunCell(m, x, es, ss, t) ==
    IF m = "Encode"
    THEN LET o == EncoderCell(x, es) IN
         [logit |-> o.logit, encoder_state |-> o.state, solver_state |-> ss,
          call |-> [cell |-> "encoder", t |-> t, state_in |-> es,
                    state_out |-> o.state, init |-> NoInit]]
    ELSE LET o == SolverCell(x, ss) IN
         [logit |-> o.logit, encoder_state |-> es, solver_state |-> o.state,
          call |-> [cell |-> "solver", t |-> t, state_in |-> ss,
                    state_out |-> o.state, init |-> NoInit]]

\* Lines 103-130: unpack the inputs, size and zero the memory, start as the
\* encoder with an empty logits container.
ForwardBegin(in, rows) ==
    /\ pc = "idle"
    /\ Len(in) > 0
    /\ inputs' = in
    /\ batch_size' = rows
    /\ encoder_state' =
           EncoderInitState(ZeroMemory(NumMemoryAddresses(num_memory_addresses, in)))
    /\ solver_state' = None
    /\ mode' = "Encode"
    /\ logits' = <<>>
    /\ calls' = <<>>
    /\ result' = None
    /\ log' = <<>>
    /\ i' = 1
    /\ pc' = "loop"
    /\ UNCHANGED <<dd_vars, prob_vars, maes_params,
                   exit_code, files, save_args, save_ret>>

\* The same on a sequence of no steps: inputs_BxSxI.chunk(0, dim=1) raises, and
\* forward returns nothing.
ForwardEmpty(rows) ==
    /\ pc = "idle"
    /\ inputs' = <<>>
    /\ batch_size' = rows
    /\ encoder_state' = EncoderInitState(ZeroMemory(0))
    /\ solver_state' = None
    /\ mode' = "Encode"
    /\ logits' = <<>>
    /\ calls' = <<>>
    /\ result' = None
    /\ log' = <<>>
    /\ i' = 1
    /\ pc' = "raised"
    /\ UNCHANGED <<dd_vars, prob_vars, maes_params,
                   exit_code, files, save_args, save_ret>>

\* One iteration of the loop (lines 132-157) on a step whose solving bit is
\* set and whose encoding bit is clear: switch, hand the state off, run.
StepSwitch ==
    /\ pc = "loop" /\ i <= Len(inputs)
    /\ LET x == Chunk(inputs, batch_size, i) IN
       /\ IsSwitch(x)
       /\ LET h == HandOffCall(encoder_state)
              r == RunCell("Solve", x, encoder_state, SolverInit(h), i)
          IN /\ mode' = "Solve"
             /\ encoder_state' = r.encoder_state
             /\ solver_state' = r.solver_state
             /\ logits' = Collect(logits, r.logit)
             /\ calls' = Append(calls, [r.call EXCEPT !.init = h])
    /\ i' = i + 1
    /\ UNCHANGED <<dd_vars, prob_vars, maes_params,
                   pc, inputs, batch_size,
                   result, exit_code, log, files, save_args, save_ret>>

\* One iteration on a step with both control bits set: log and exit(-1).
StepIllegal ==
    /\ pc = "loop" /\ i <= Len(inputs)
    /\ LET x == Chunk(inputs, batch_size, i) IN
       /\ ~IsSwitch(x)
       /\ IsIllegal(x)
       /\ log' = Append(log, [level |-> "error", msg |-> "Two control bits were on"])
    /\ exit_code' = <<-1>>
    /\ pc' = "exited"
    /\ UNCHANGED <<dd_vars, prob_vars, maes_params,
                   inputs, batch_size, i,
                   mode, encoder_state, solver_state, logits, calls, result,
                   files, save_args, save_ret>>

\* One iteration on any other step: run the cell of the current mode.
StepRun ==
    /\ pc = "loop" /\ i <= Len(inputs)
    /\ LET x == Chunk(inputs, batch_size, i) IN
       /\ ~IsSwitch(x)
       /\ ~IsIllegal(x)
       /\ LET r == RunCell(mode, x, encoder_state, solver_state, i) IN
          /\ encoder_state' = r.encoder_state
          /\ solver_state' = r.solver_state
          /\ logits' = Collect(logits, r.logit)
          /\ calls' = Append(calls, r.call)
    /\ i' = i + 1
    /\ UNCHANGED <<dd_vars, prob_vars, maes_params,
                   pc, inputs, batch_size,
                   mode, result, exit_code, log, files, save_args, save_ret>>

\* Lines 159-161: the loop is over; stack and return.
ForwardReturn ==
    /\ pc = "loop" /\ i > Len(inputs)
    /\ result' = Stack(logits)
    /\ pc' = "returned"
    /\ UNCHANGED <<dd_vars, prob_vars, maes_params,
                   inputs, batch_size, i,
                   mode, encoder_state, solver_state, logits, calls, exit_code,
                   log, files, save_args, save_ret>>

\* The caller is done with what forward returned (or with its exception) and
\* the model is ready for the next batch, as in the loop of the forward test.
ForwardDone ==
    /\ pc \in {"returned", "raised"}
    /\ pc' = "idle"
    /\ inputs' = <<>>
    /\ batch_size' = 1
    /\ i' = 1
    /\ mode' = "Encode"
    /\ encoder_state' = None
    /\ solver_state' = None
    /\ logits' = <<>>
    /\ calls' = <<>>
    /\ result' = None
    /\ log' = <<>>
    /\ UNCHANGED <<dd_vars, prob_vars, maes_params, exit_code, files, save_args, save_ret>>

\* ---------------------------------------------------------------- MAES.save
DigitChar(k) == <<"0", "1", "2", "3", "4", "5", "6", "7", "8", "9">>[k + 1]

RECURSIVE Digits(_)
Digits(n) == IF n < 10 THEN <<DigitChar(n)>>
             ELSE Append(Digits(n \div 10), DigitChar(n % 10))

RECURSIVE ZeroPad(_, _)
ZeroPad(s, width) == IF Len(s) >= width THEN s ELSE ZeroPad(<<"0">> \o s, width)

\* '{:05d}'.format(n): at least five characters, zero-padded after the sign.
Format05d(n) == IF n >= 0 THEN ZeroPad(Digits(n), 5)
                ELSE <<"-">> \o ZeroPad(Digits(-n), 4)

\* Strings are sequences of pieces, the path separator "/" a piece of its
\* own; + on strings is \o.
\* model_dir + 'model_episode_{:05d}.pt'.format(episode)
ModelPath(model_dir, episode) ==
    model_dir \o <<"model_episode_">> \o Format05d(episode) \o <<".pt">>

\* model_dir + 'encoder_episode_{:05d}.pt'.format(episode)
EncoderPath(model_dir, episode) ==
    model_dir \o <<"encoder_episode_">> \o Format05d(episode) \o <<".pt">>

\* What save hands back: the body has no return statement.
SaveReturn == "None"

\* The episodes and directories save is called with.
Episodes == {7, 123456}
ModelDirs == {<<".", "/", "models", "/">>, <<".", "/", "models">>}

Save(model_dir, episode) ==
    /\ pc = "idle"
    /\ files' = <<[path |-> ModelPath(model_dir, episode), what |-> "model"]>>
                \o (IF save_encoder
                    THEN <<[path |-> EncoderPath(model_dir, episode),
                            what |-> "encoder"]>>
                    ELSE <<>>)
    /\ log' = <<[level |-> "info", msg |-> "Model exported to"]>>
              \o (IF save_encoder
                  THEN <<[level |-> "info", msg |-> "Encoder exported to"]>>
                  ELSE <<>>)
    /\ save_args' = Return([model_dir |-> model_dir, episode |-> episode])
    /\ save_ret' = Return(SaveReturn)
    /\ UNCHANGED <<dd_vars, prob_vars, maes_params,
                   pc, inputs, batch_size, i,
                   mode, encoder_state, solver_state, logits, calls, result,
                   exit_code>>

\* ------------------------------------------------------------------ DataDict
Keys == {"inputs", "targets", "mask"}

\* The values held: None, a non-tensor object, a numpy array, and tensors
\* with their device and requires_grad.
NoneVal == [kind |-> "None", device |-> "-", grad |-> FALSE]
IntVal  == [kind |-> "int", device |-> "-", grad |-> FALSE]
NdArray == [kind |-> "ndarray", device |-> "cpu", grad |-> FALSE]
Tensor(device, grad) == [kind |-> "tensor", device |-> device, grad |-> grad]
Tensors == {Tensor(dev, g) : dev \in {"cpu", "cuda"}, g \in BOOLEAN}
Values  == {NoneVal, IntVal, NdArray} \cup Tensors

\* isinstance(v, torch.Tensor)
IsTensor(v) == v.kind = "tensor"

\* self.__dict__[key] = value
Put(dict, key, value) ==
    [k \in DOMAIN dict \cup {key} |-> IF k = key THEN value ELSE dict[k]]

\* del self.__dict__[key]
Remove(dict, key) == [k \in DOMAIN dict \ {key} |-> dict[k]]

\* The condition under which __setitem__ raises.
SetItemRejects(dict, key, addkey) == addkey /\ key \notin DOMAIN dict

\* DataDict.__setitem__(key, value, addkey) on a DataDict holding dict.
SetItem(dict, key, value, addkey) ==
    IF SetItemRejects(dict, key, addkey)
    THEN [outcome |-> "KeyError", dict |-> dict]
    ELSE [outcome |-> "ok", dict |-> Put(dict, key, value)]

\* The condition under which __delitem__ refuses.
DelItemRefuses_Inverted(dict, key, override) == override
DelItemRefuses(dict, key, override) == ~override

\* DataDict.__delitem__(key, override); del of an absent key raises KeyError.
DelItem(dict, key, override) ==
    IF DelItemRefuses(dict, key, override)
    THEN [outcome |-> "KeyError", dict |-> dict]
    ELSE IF key \notin DOMAIN dict
         THEN [outcome |-> "KeyError", dict |-> dict]
         ELSE [outcome |-> "ok", dict |-> Remove(dict, key)]

\* torch.Tensor.numpy(): refused for a tensor on CUDA or requiring grad.
CanNumpy(v) == v.device = "cpu" /\ ~v.grad
ToNumpy(v)  == NdArray
\* torch.Tensor.cpu(), .cuda(), .detach()
ToCpu(v)    == [v EXCEPT !.device = "cpu"]
ToCuda(v)   == [v EXCEPT !.device = "cuda"]
ToDetach(v) == [v EXCEPT !.grad = FALSE]

Convert(op, v) ==
    CASE op = "numpy"  -> ToNumpy(v)
      [] op = "cpu"    -> ToCpu(v)
      [] op = "cuda"   -> ToCuda(v)
      [] op = "detach" -> ToDetach(v)

\* The value stored under a key of the converted DataDict.
Converted_TensorsOnly(op, v) == IF IsTensor(v) THEN Convert(op, v) ELSE NoneVal
Converted(op, v) == IF IsTensor(v) THEN Convert(op, v) ELSE v

\* for key in self: new[key] = ... (through __setitem__), over the keys left.
RECURSIVE FillFrom(_, _, _, _)
FillFrom(op, self, new, left) ==
    IF left = {} THEN new
    ELSE LET key == CHOOSE k \in left : TRUE IN
         FillFrom(op, self, SetItem(new, key, Converted(op, self[key]), FALSE).dict,
                  left \ {key})

\* self.__class__({key: None for key in self.keys()})
EmptyLike(keys) == [k \in keys |-> NoneVal]

\* DataDict.numpy(), cpu(), cuda(), detach(): the converted DataDict.
ConvertAll(op, self) == FillFrom(op, self, EmptyLike(DOMAIN self), DOMAIN self)

\* Whether the conversion of some value raises.
ConvertRaises(op, self) ==
    op = "numpy" /\ \E k \in DOMAIN self : IsTensor(self[k]) /\ ~CanNumpy(self[k])

DDRecord(op, key, value, flag, outcome, before, ret) ==
    [op |-> op, key |-> key, value |-> value, flag |-> flag,
     outcome |-> outcome, before |-> before, ret |-> ret]

\* d[key] = value is __setitem__(key, value) with addkey at its default.
DDSetItem(key, value, addkey) ==
    /\ LET r == SetItem(d, key, value, addkey) IN
       /\ d' = r.dict
       /\ dd_last' = DDRecord("setitem", key, value, addkey, r.outcome, d, NoReturn)
    /\ UNCHANGED <<maes_vars, prob_vars>>

\* del d[key] is __delitem__(key) with override at its default.
DDDelItem(key, override) ==
    /\ LET r == DelItem(d, key, override) IN
       /\ d' = r.dict
       /\ dd_last' = DDRecord("delitem", key, NoneVal, override, r.outcome, d, NoReturn)
    /\ UNCHANGED <<maes_vars, prob_vars>>

DDConvert(op) ==
    /\ dd_last' = IF ConvertRaises(op, d)
                  THEN DDRecord(op, "-", NoneVal, FALSE, "raises", d, NoReturn)
                  ELSE DDRecord(op, "-", NoneVal, FALSE, "ok", d, Return(ConvertAll(op, d)))
    /\ UNCHANGED <<d, maes_vars, prob_vars>>

\* cuda() where no CUDA device is available: the first tensor's .cuda() raises.
DDCudaUnavailable ==
    /\ \E k \in DOMAIN d : IsTensor(d[k])
    /\ dd_last' = DDRecord("cuda", "-", NoneVal, FALSE, "raises", d, NoReturn)
    /\ UNCHANGED <<d, maes_vars, prob_vars>>

\* ------------------------------------------------------------------- Problem
\* One entry of data_definitions: {'size': [...], 'type': [...]}.
Definition(key) ==
    IF key = "targets"
    THEN [size |-> <<-1, 1>>, type |-> <<"torch.Tensor">>]
    ELSE [size |-> <<-1, -1, -1>>, type |-> <<"torch.Tensor">>]

\* self.data_definitions as the base constructor sets it, and as a problem
\* that adds its own fields to it leaves it: `targets` is always there.
BaseDataDefinitions == [k \in {"targets"} |-> Definition(k)]
DataDefinitionsOver(keys) == [k \in keys |-> Definition(k)]
AllDataDefinitions ==
    {DataDefinitionsOver(K \cup {"targets"}) : K \in SUBSET Keys}

\* Problem.get_epoch_size() on a dataset of len items in batches of batch.
EpochSize_DropLast(len, batch) == len \div batch
EpochSize(len, batch) ==
    IF (len % batch) = 0
    THEN len \div batch
    ELSE (len \div batch) + 1

\* Problem.__getitem__(index)
GetItemDict_Empty(defs) == <<>>
GetItemDict(defs) == [k \in DOMAIN defs |-> NoneVal]

\* Problem.get_data_definitions()
PickDataDefinitions(defs) == defs

ProblemState == [length |-> length, batch_size |-> params_batch_size,
                 data_definitions |-> data_definitions]

ProbRecord(op, index, outcome, ret) ==
    [op |-> op, index |-> index, outcome |-> outcome, ret |-> ret,
     before |-> ProblemState]

\* self.length is None until a problem sets it: None % int is a TypeError;
\* a batch size of 0 is a ZeroDivisionError.
GetEpochSize ==
    /\ prob_last' =
         IF length = NoReturn
         THEN ProbRecord("get_epoch_size", 0, "TypeError", NoReturn)
         ELSE IF params_batch_size = 0
         THEN ProbRecord("get_epoch_size", 0, "ZeroDivisionError", NoReturn)
         ELSE ProbRecord("get_epoch_size", 0, "ok",
                         Return(EpochSize(length[1], params_batch_size)))
    /\ UNCHANGED <<length, params_batch_size, data_definitions, maes_vars, dd_vars>>

ProblemGetItem(index) ==
    /\ prob_last' = ProbRecord("getitem", index, "ok",
                               Return(GetItemDict(data_definitions)))
    /\ UNCHANGED <<length, params_batch_size, data_definitions, maes_vars, dd_vars>>

GetDataDefinitions ==
    /\ prob_last' = ProbRecord("get_data_definitions", 0, "ok",
                               Return(PickDataDefinitions(data_definitions)))
    /\ UNCHANGED <<length, params_batch_size, data_definitions, maes_vars, dd_vars>>

\* ------------------------------------------------------------ specifications
\* MAES.__init__: the parameters read from params, with their defaults.
MAESConstructed(enc, sol, pass, addresses, save) ==
    /\ params = [pass_cell_state |-> pass, save_encoder |-> save]
    /\ encoding_bit = enc
    /\ solving_bit = sol
    /\ pass_cell_state = ParamGet(pass, TRUE)
    /\ num_memory_addresses = addresses
    /\ save_encoder = ParamGet(save, FALSE)
    /\ pc = "idle"
    /\ inputs = <<>>
    /\ batch_size = 1
    /\ i = 1
    /\ mode = "Encode"
    /\ encoder_state = None
    /\ solver_state = None
    /\ logits = <<>>
    /\ calls = <<>>
    /\ result = None
    /\ exit_code = <<>>
    /\ log = <<>>
    /\ files = <<>>
    /\ save_args = NoReturn
    /\ save_ret = NoReturn

\* DataDict(): an empty DataDict.
DataDictConstructed(dict) ==
    /\ d = dict
    /\ dd_last = DDRecord("init", "-", NoneVal, FALSE, "ok", dict, NoReturn)

\* Problem.__init__ (length None, the base data_definitions), or a problem
\* whose constructor went on to set its length and its data_definitions.
ProblemConstructed(len, batch, defs) ==
    /\ length = len
    /\ params_batch_size = batch
    /\ data_definitions = defs
    /\ prob_last = [op |-> "init", index |-> 0, outcome |-> "ok", ret |-> NoReturn,
                    before |-> [length |-> len, batch_size |-> batch,
                                data_definitions |-> defs]]

MAESDefault == MAESConstructed(0, 1, Absent, -1, Absent)
DataDictDefault == DataDictConstructed(<<>>)
ProblemDefault == ProblemConstructed(NoReturn, 1, BaseDataDefinitions)

Init ==
    /\ \E bits \in {<<0, 1>>, <<1, 0>>}, pass \in {Absent, Given(TRUE), Given(FALSE)},
          addresses \in {-1, 2}, save \in {Absent, Given(TRUE), Given(FALSE)} :
          MAESConstructed(bits[1], bits[2], pass, addresses, save)
    /\ DataDictDefault
    /\ ProblemDefault

Next ==
    \/ \E in \in InputSeqs, rows \in 1 .. MaxBatch : ForwardBegin(in, rows)
    \/ \E rows \in 1 .. MaxBatch : ForwardEmpty(rows)
    \/ StepSwitch
    \/ StepIllegal
    \/ StepRun
    \/ ForwardReturn
    \/ ForwardDone
    \/ \E dir \in ModelDirs, episode \in Episodes : Save(dir, episode)

Spec == Init /\ [][Next]_vars

InitDataDict ==
    /\ MAESDefault
    /\ DataDictDefault
    /\ ProblemDefault

NextDataDict ==
    \/ \E key \in Keys, value \in Values, addkey \in BOOLEAN :
          DDSetItem(key, value, addkey)
    \/ \E key \in Keys, override \in BOOLEAN : DDDelItem(key, override)
    \/ \E op \in {"numpy", "cpu", "cuda", "detach"} : DDConvert(op)
    \/ DDCudaUnavailable

SpecDataDict == InitDataDict /\ [][NextDataDict]_vars

InitProblem ==
    /\ MAESDefault
    /\ DataDictDefault
    /\ \E len \in {NoReturn} \cup {Return(n) : n \in 0 .. MaxLength},
          batch \in 0 .. MaxParamBatch, defs \in AllDataDefinitions :
          ProblemConstructed(len, batch, defs)

NextProblem ==
    \/ GetEpochSize
    \/ \E index \in 0 .. MaxLength : ProblemGetItem(index)
    \/ GetDataDefinitions

SpecProblem == InitProblem /\ [][NextProblem]_vars

\* ---------------------------------------------------------------- properties
\* A step with both control bits on, and a step that asks for solving: read
\* off the input, channel by channel.
BothBitsOn(step) == step[encoding_bit] # 0 /\ step[solving_bit] # 0
AsksForSolving(step) == step[solving_bit] # 0 /\ step[encoding_bit] = 0

\* The first step of the sequence that asks for solving, 0 when there is none.
FirstSolveStep(in) ==
    IF \E t \in 1 .. Len(in) : AsksForSolving(in[t])
    THEN CHOOSE t \in 1 .. Len(in) :
            /\ AsksForSolving(in[t])
            /\ \A u \in 1 .. (t - 1) : ~AsksForSolving(in[u])
    ELSE 0

\* C1: whenever forward returns, its result holds exactly one logit per input
\* step, stacked in input order: the sequence axis has as many entries as
\* the input has steps, the batch axis as many as the input has rows, and
\* the t-th entry is the logit computed from the t-th step.
C1_OneLogitPerStep ==
    pc = "returned" =>
        /\ result.shape.seq = Len(inputs)
        /\ result.shape.batch = batch_size
        /\ result.shape.feat = "output_size"
        /\ Len(result.items) = Len(inputs)
        /\ \A t \in 1 .. Len(inputs) : result.items[t].x = inputs[t]

\* forward returned on a sequence of three steps or more, part of it handled
\* by the encoder and part by the solver.
C1_Witness ==
    /\ pc = "returned"
    /\ Len(inputs) >= 3
    /\ \E k \in 1 .. Len(calls) : calls[k].cell = "encoder"
    /\ \E k \in 1 .. Len(calls) : calls[k].cell = "solver"

\* C2: a step with both control bits on is illegal input. Once forward
\* reaches it the error is logged and the process has exited with code -1,
\* neither cell was run on that step, forward has returned nothing, and
\* nothing runs afterwards; no cell is ever run on such a step, and forward
\* never returns from a sequence containing one.
C2_IllegalStepTerminates ==
    /\ pc = "exited" =>
          /\ BothBitsOn(inputs[i])
          /\ exit_code = <<-1>>
          /\ result = None
          /\ Len(calls) = i - 1
          /\ \A k \in 1 .. Len(calls) : calls[k].t < i
          /\ Len(logits) = i - 1
          /\ log # <<>>
          /\ log[Len(log)].level = "error"
          /\ ~ENABLED Next
    /\ exit_code # <<>> => pc = "exited"
    /\ \A k \in 1 .. Len(calls) : ~BothBitsOn(inputs[calls[k].t])
    /\ pc = "returned" => \A t \in 1 .. Len(inputs) : ~BothBitsOn(inputs[t])

\* The process exited on the third step of a sequence, in Solve mode, after
\* two steps were processed.
C2_Witness ==
    /\ pc = "exited"
    /\ i = 3
    /\ mode = "Solve"
    /\ Len(calls) = 2

\* C3: forward starts in Encode mode and is in Solve mode exactly from the
\* first step that asks for solving (solving bit on, encoding bit off)
\* onwards: the steps are processed in order, every step before that one by
\* the encoder cell, that step and every later one by the solver cell; a
\* sequence without such a step is processed by the encoder alone.
C3_EncodeThenSolve ==
    LET first == FirstSolveStep(inputs) IN
    /\ \A k \in 1 .. Len(calls) :
          /\ calls[k].t = k
          /\ calls[k].cell = IF first # 0 /\ k >= first THEN "solver" ELSE "encoder"
    /\ (mode = "Solve") <=> (first # 0 /\ first < i)
    /\ mode \in {"Encode", "Solve"}
    /\ pc = "returned" => Len(calls) = Len(inputs)
    /\ pc = "loop" => Len(calls) = i - 1

\* forward returned on a sequence whose second step asks for solving and
\* whose third step has only its encoding bit on: the mode stayed Solve.
C3_Witness ==
    /\ pc = "returned"
    /\ Len(inputs) >= 3
    /\ FirstSolveStep(inputs) = 2
    /\ inputs[3][encoding_bit] # 0
    /\ calls[1].cell = "encoder"
    /\ calls[3].cell = "solver"

\* The encoder state reached before step t of the current call.
EncoderStateBefore(t) ==
    IF t = 1
    THEN EncoderInitState(ZeroMemory(NumMemoryAddresses(num_memory_addresses, inputs)))
    ELSE calls[t - 1].state_out

\* C4: at the switch to Solve mode the solver starts from the encoder state
\* reached after the last encoded step: memory and attention are the
\* encoder's; with pass_cell_state true (the default when params does not
\* give it) the controller state is the encoder's too, with pass_cell_state
\* false the controller state is fresh.
C4_HandOff ==
    LET first == FirstSolveStep(inputs) IN
    /\ params.pass_cell_state = Absent => pass_cell_state = TRUE
    /\ (first # 0 /\ Len(calls) >= first) =>
          LET es == EncoderStateBefore(first)
              ss == calls[first].state_in
              h  == calls[first].init
          IN /\ first > 1 => calls[first - 1].cell = "encoder"
             /\ pass_cell_state =>
                   /\ h.fn = "init_state_with_encoder_state"
                   /\ h.encoder_state = es
             /\ ~pass_cell_state =>
                   /\ h.fn = "init_state"
                   /\ h.memory = es.memory_state
                   /\ h.attention = es.attention
             /\ ss.memory_state = es.memory_state
             /\ ss.attention = es.attention
             /\ pass_cell_state => ss.ctrl_state = es.ctrl_state
             /\ ~pass_cell_state => ss.ctrl_state = 0

\* A switch after two encoded steps with pass_cell_state false: the encoder's
\* controller state is not fresh any more, its memory is written.
C4_Witness ==
    /\ ~pass_cell_state
    /\ FirstSolveStep(inputs) = 3
    /\ Len(calls) >= 3
    /\ calls[2].state_out.ctrl_state # 0
    /\ calls[3].init.fn = "init_state"
    /\ calls[3].state_in.memory_state = calls[2].state_out.memory_state
    /\ calls[3].state_in.memory_state # ZeroMemory(Len(calls[3].state_in.memory_state))

\* C5 (as claimed): __setitem__ adds a new key only when addkey is True; with
\* addkey False an assignment to a key the DataDict does not hold raises
\* KeyError and leaves the DataDict as it was, and an assignment to a key it
\* holds replaces the value.
C5_SetItemNeedsAddkey ==
    dd_last.op = "setitem" =>
        IF dd_last.key \in DOMAIN dd_last.before
        THEN ~dd_last.flag =>
                /\ dd_last.outcome = "ok"
                /\ d = Put(dd_last.before, dd_last.key, dd_last.value)
        ELSE /\ ~dd_last.flag =>
                   /\ dd_last.outcome = "KeyError"
                   /\ d = dd_last.before
             /\ DOMAIN d # DOMAIN dd_last.before => dd_last.flag

\* C6: __delitem__ with override False raises KeyError for every key, held
\* or not, and leaves the DataDict as it was; the DataDict loses a key only
\* by __delitem__(key, override=True), which removes exactly that key.
C6_DeleteNeedsOverride ==
    dd_last.op = "delitem" =>
        /\ ~dd_last.flag =>
              /\ dd_last.outcome = "KeyError"
              /\ d = dd_last.before
        /\ d # dd_last.before =>
              /\ dd_last.flag
              /\ dd_last.key \in DOMAIN dd_last.before
              /\ DOMAIN d = DOMAIN dd_last.before \ {dd_last.key}
              /\ \A k \in DOMAIN d : d[k] = dd_last.before[k]
        /\ (dd_last.flag /\ dd_last.key \in DOMAIN dd_last.before) =>
              /\ dd_last.outcome = "ok"
              /\ dd_last.key \notin DOMAIN d

\* del d[key] on a key the DataDict holds, with a tensor under it: refused.
C6_Witness ==
    /\ dd_last.op = "delitem"
    /\ ~dd_last.flag
    /\ dd_last.key \in DOMAIN d
    /\ d[dd_last.key].kind = "tensor"
    /\ dd_last.outcome = "KeyError"

\* What each conversion makes of a tensor, attribute by attribute.
IsConverted(op, from, to) ==
    CASE op = "numpy"  -> to.kind = "ndarray"
      [] op = "cpu"    -> to.kind = "tensor" /\ to.device = "cpu"
                          /\ to.grad = from.grad
      [] op = "cuda"   -> to.kind = "tensor" /\ to.device = "cuda"
                          /\ to.grad = from.grad
      [] op = "detach" -> to.kind = "tensor" /\ to.device = from.device
                          /\ to.grad = FALSE

\* C7: numpy(), cpu(), cuda() and detach(), when they return, return a
\* DataDict with the receiver's key set, every value that is not a tensor as
\* the receiver holds it and every tensor converted; the receiver is left as
\* it was, whether they return or raise.
C7_ConversionsKeepKeys ==
    dd_last.op \in {"numpy", "cpu", "cuda", "detach"} =>
        /\ d = dd_last.before
        /\ dd_last.ret # NoReturn =>
              LET new == dd_last.ret[1] IN
              /\ DOMAIN new = DOMAIN d
              /\ \A k \in DOMAIN d :
                    IF d[k].kind = "tensor"
                    THEN IsConverted(dd_last.op, d[k], new[k])
                    ELSE new[k] = d[k]

\* cuda() returned on a DataDict holding a CPU tensor that requires grad, a
\* non-tensor object and a None.
C7_Witness ==
    /\ dd_last.op = "cuda"
    /\ dd_last.ret # NoReturn
    /\ DOMAIN d = Keys
    /\ \E k \in DOMAIN d : d[k] = Tensor("cpu", TRUE)
    /\ \E k \in DOMAIN d : d[k] = IntVal
    /\ \E k \in DOMAIN d : d[k] = NoneVal

\* C8: for a dataset of L >= 0 items and a batch size B >= 1, get_epoch_size
\* returns ceil(L / B): the least n with n * B >= L, which is L // B when B
\* divides L and L // B + 1 otherwise.
C8_EpochSizeIsCeiling ==
    (prob_last.op = "get_epoch_size" /\ length # NoReturn /\ params_batch_size >= 1) =>
        /\ prob_last.outcome = "ok"
        /\ prob_last.ret # NoReturn
        /\ LET n == prob_last.ret[1]
               L == length[1]
               B == params_batch_size
           IN /\ n >= 0
              /\ n * B >= L
              /\ (n - 1) * B < L
              /\ (\E q \in 0 .. L : q * B = L) => n = L \div B
              /\ ~(\E q \in 0 .. L : q * B = L) => n = (L \div B) + 1

\* get_epoch_size returned 3 for 5 items in batches of 2: the last batch is
\* the smaller one.
C8_Witness ==
    /\ prob_last.op = "get_epoch_size"
    /\ length = Return(5)
    /\ params_batch_size = 2
    /\ prob_last.ret = Return(3)

\* C9: the base __getitem__ returns, for every index, a DataDict whose keys
\* are those of data_definitions (`targets` among them), every value None;
\* get_data_definitions returns data_definitions; neither changes the length,
\* the parameters or the data_definitions of the problem.
C9_GettersFollowDataDefinitions ==
    /\ prob_last.op = "getitem" =>
          /\ prob_last.outcome = "ok"
          /\ prob_last.ret # NoReturn
          /\ DOMAIN prob_last.ret[1] = DOMAIN data_definitions
          /\ "targets" \in DOMAIN prob_last.ret[1]
          /\ \A k \in DOMAIN prob_last.ret[1] : prob_last.ret[1][k].kind = "None"
          /\ ProblemState = prob_last.before
    /\ prob_last.op = "get_data_definitions" =>
          /\ prob_last.ret = Return(data_definitions)
          /\ ProblemState = prob_last.before

\* __getitem__ at a positive index of a problem whose data_definitions hold
\* `inputs` and `targets`.
C9_Witness ==
    /\ prob_last.op = "getitem"
    /\ prob_last.index > 0
    /\ DOMAIN data_definitions = {"inputs", "targets"}
    /\ DOMAIN prob_last.ret[1] = {"inputs", "targets"}

\* C10 (as claimed): a save that wrote the model file returns False.
C10_SaveReturnsFalse ==
    (save_ret # NoReturn /\ files # <<>>) => save_ret = Return("False")

\* The position of the last path separator of a path, 0 when it has none.
LastSeparator(path) ==
    IF \E k \in 1 .. Len(path) : path[k] = "/"
    THEN CHOOSE k \in 1 .. Len(path) :
            path[k] = "/" /\ \A j \in (k + 1) .. Len(path) : path[j] # "/"
    ELSE 0

\* The file name of a path and the directory that holds it.
BaseName(path) == SubSeq(path, LastSeparator(path) + 1, Len(path))
DirName(path)  == SubSeq(path, 1, LastSeparator(path) - 1)

\* A directory name without the separator it may end with.
RECURSIVE StripSeparator(_)
StripSeparator(dir) ==
    IF dir # <<>> /\ dir[Len(dir)] = "/"
    THEN StripSeparator(SubSeq(dir, 1, Len(dir) - 1))
    ELSE dir

\* The number a sequence of decimal digits writes.
RECURSIVE DigitsValue(_)
DigitsValue(ds) ==
    IF ds = <<>> THEN 0
    ELSE 10 * DigitsValue(SubSeq(ds, 1, Len(ds) - 1))
         + (CHOOSE k \in 0 .. 9 : DigitChar(k) = ds[Len(ds)])

\* name is prefix, then the episode in decimal, zero-padded to five digits
\* (and no further), then ".pt".
IsEpisodeFileName(name, prefix, episode) ==
    /\ Len(name) >= 7
    /\ name[1] = prefix
    /\ name[Len(name)] = ".pt"
    /\ LET ds == SubSeq(name, 2, Len(name) - 1) IN
       /\ \A k \in 1 .. Len(ds) : \E c \in 0 .. 9 : DigitChar(c) = ds[k]
       /\ DigitsValue(ds) = episode
       /\ Len(ds) = 5 \/ (Len(ds) > 5 /\ ds[1] # "0")

\* The last save wrote its files at model_dir + <file name>, the model file
\* first and the encoder file if and only if save_encoder (False unless params
\* gives it).
SaveWroteEpisodeFiles ==
    save_args # NoReturn =>
        LET dir == save_args[1].model_dir
            ep  == save_args[1].episode
        IN /\ params.save_encoder = Absent => ~save_encoder
           /\ Len(files) = IF save_encoder THEN 2 ELSE 1
           /\ files[1].what = "model"
           /\ SubSeq(files[1].path, 1, Len(dir)) = dir
           /\ IsEpisodeFileName(SubSeq(files[1].path, Len(dir) + 1, Len(files[1].path)),
                                "model_episode_", ep)
           /\ save_encoder =>
                 /\ files[2].what = "encoder"
                 /\ SubSeq(files[2].path, 1, Len(dir)) = dir
                 /\ IsEpisodeFileName(
                        SubSeq(files[2].path, Len(dir) + 1, Len(files[2].path)),
                        "encoder_episode_", ep)

\* C11 (as claimed): save always writes the file named model_episode_<episode
\* zero-padded to five digits>.pt in the directory model_dir, writes the file
\* named encoder_episode_<the same>.pt there if and only if save_encoder is
\* true (false unless params gives it), and writes the model file first.
C11_SaveWritesIntoModelDir ==
    save_args # NoReturn =>
        LET dir == StripSeparator(save_args[1].model_dir)
            ep  == save_args[1].episode
        IN /\ params.save_encoder = Absent => ~save_encoder
           /\ Len(files) = IF save_encoder THEN 2 ELSE 1
           /\ files[1].what = "model"
           /\ DirName(files[1].path) = dir
           /\ IsEpisodeFileName(BaseName(files[1].path), "model_episode_", ep)
           /\ save_encoder =>
                 /\ files[2].what = "encoder"
                 /\ DirName(files[2].path) = dir
                 /\ IsEpisodeFileName(BaseName(files[2].path), "encoder_episode_", ep)

=============================================================================
